---- MODULE Spec2Model ----
(***************************************************************************)
(* TypeScriptImplementationsCodeLensProvider                               *)
(* (extensions/typescript-language-features/src/features/                  *)
(*  implementationsCodeLensProvider.ts).                                   *)
(*                                                                         *)
(* Spec        one lens, resolved up to MaxCalls times by the driver, the  *)
(*             requests cancelled or failing at will                       *)
(* SpecBody    one lens, every request answered, over all response bodies  *)
(* SpecPair    two distinct lenses resolved concurrently, the requests     *)
(*             cancelled at will                                           *)
(* SpecSpan    the text-span -> display-range conversion, as a function    *)
(* SpecSymbol  extractSymbol, as a function                                *)
(***************************************************************************)
EXTENDS Integers, Sequences, FiniteSets, TLC

VARIABLES
    lenses,     \* lens id -> ReferencesCodeLens {document, file, range, command}
    calls,      \* lens id -> the current resolveCodeLens call of that lens
    tokens,     \* lens id -> isCancellationRequested of the current call's token
    service,    \* lens id -> what the language service answers at that lens
    queries,    \* lens id -> the requests the language service received
    results,    \* lens id -> the outcomes of the finished calls, oldest first
    reference,  \* SpecSpan: the Proto.FileSpan being converted
    location,   \* SpecSpan: the vscode.Location computed from it
    navItem,    \* SpecSymbol: the Proto.NavigationTree item
    navParent,  \* SpecSymbol: its parent item
    symbolRange \* SpecSymbol: what extractSymbol returned

vars == <<lenses, calls, tokens, service, queries, results,
          reference, location, navItem, navParent, symbolRange>>

----------------------------------------------------------------------------
(* Bounds *)

MaxLine == 1        \* lines of a document on which a declaration starts
MaxCol == 2         \* columns of a line at which a declaration starts
MaxHits == 2        \* entries of a response body
MaxCalls == 2       \* resolveCodeLens calls the driver makes per lens
SpanMaxLine == 8    \* SpecSpan: lines of a document
SpanMaxCol == 3     \* SpecSpan: columns of a line
MaxParts == 3       \* SpecSymbol: pieces a kindModifiers string is made of

Files == {"/a.ts", "/b.ts"}

\* An absent value (undefined / null) is the empty sequence, a present value v
\* is <<v>>.
Undefined == <<>>
Some(v) == <<v>>

----------------------------------------------------------------------------
(* Values of the editor API and of the protocol *)

Position(line, character) == [line |-> line, character |-> character]

\* new vscode.Range(startLine, startCharacter, endLine, endCharacter), for a
\* start that is not after the end (the spans of FileSpans below).
Range(startLine, startCharacter, endLine, endCharacter) ==
    [start |-> Position(startLine, startCharacter),
     end |-> Position(endLine, endCharacter)]

Location(uri, range) == [uri |-> uri, range |-> range]

\* client.asUrl(filepath): the file URI of a path.
asUrl(filepath) == "file://" \o filepath

\* typeConverters.Range.fromTextSpan: 1-based line/offset to 0-based
\* line/character.
fromTextSpan(span) ==
    Range(span.start.line - 1, span.start.offset - 1,
          span.end.line - 1, span.end.offset - 1)

\* typeConverters.Position.toFileLocationRequestArgs: 0-based position to the
\* 1-based line/offset of the protocol.
toFileLocationRequestArgs(file, position) ==
    [file |-> file, line |-> position.line + 1, offset |-> position.character + 1]

\* The text spans the language service reports: start is not after end.
SpanPositions(maxLine, maxCol) == [line : 1..maxLine, offset : 1..maxCol]

SpanOrdered(s, e) ==
    \/ s.line < e.line
    \/ s.line = e.line /\ s.offset <= e.offset

FileSpans(maxLine, maxCol) ==
    {r \in [file : Files,
            start : SpanPositions(maxLine, maxCol),
            end : SpanPositions(maxLine, maxCol)] : SpanOrdered(r.start, r.end)}

----------------------------------------------------------------------------
(* resolveCodeLens *)

oneImplementationLabel == "1 implementation"
manyImplementationLabel(n) == ToString(n) \o " implementations"
implementationsErrorLabel == "Could not determine implementations"

\* Mutation: a multi-line span is not cut down to its first line.
ReferenceLocationWholeSpan(ref) ==
    Location(asUrl(ref.file), fromTextSpan(ref))

\* lines 46-53: the location shown for one entry of the response body.
ReferenceLocation(ref) ==
    Location(asUrl(ref.file),
             IF ref.start.line = ref.end.line
             THEN fromTextSpan(ref)
             ELSE Range(ref.start.line - 1, ref.start.offset - 1,
                        ref.start.line, 0))

\* Mutation: the character of the start position is not compared.
NotOriginalSameLine(codeLens, loc) ==
    ~(/\ loc.uri = codeLens.document
      /\ loc.range.start.line = codeLens.range.start.line)

\* lines 55-58: the filter predicate, TRUE for a location that is kept.
NotOriginal(codeLens, loc) ==
    ~(/\ loc.uri = codeLens.document
      /\ loc.range.start.line = codeLens.range.start.line
      /\ loc.range.start.character = codeLens.range.start.character)

RECURSIVE MapLocations(_)
MapLocations(body) ==
    IF body = <<>> THEN <<>>
    ELSE <<ReferenceLocation(Head(body))>> \o MapLocations(Tail(body))

RECURSIVE FilterLocations(_, _)
FilterLocations(codeLens, locs) ==
    IF locs = <<>> THEN <<>>
    ELSE (IF NotOriginal(codeLens, Head(locs)) THEN <<Head(locs)>> ELSE <<>>)
         \o FilterLocations(codeLens, Tail(locs))

\* Mutation: a location already in the list is dropped.
LocationsDeduplicated(codeLens, body) ==
    LET RECURSIVE Distinct(_, _)
        Distinct(locs, seen) ==
            IF locs = <<>> THEN <<>>
            ELSE IF Head(locs) \in seen THEN Distinct(Tail(locs), seen)
            ELSE <<Head(locs)>> \o Distinct(Tail(locs), seen \cup {Head(locs)})
    IN  Distinct(FilterLocations(codeLens, MapLocations(body)), {})

\* lines 45-58
Locations(codeLens, body) == FilterLocations(codeLens, MapLocations(body))

\* Mutation: an empty array counts as a missing body.
MissingOrEmptyBody(response) ==
    \/ response = Undefined
    \/ response[1].body = Undefined
    \/ response[1].body[1] = <<>>

\* line 41: !response || !response.body.  An empty array is a body.
MissingBody(response) ==
    \/ response = Undefined
    \/ response[1].body = Undefined

\* Mutation: the plural label is used for every count.
ResolvedCommandAlwaysPlural(codeLens, locations) ==
    [title |-> manyImplementationLabel(Len(locations)),
     command |-> IF Len(locations) # 0 THEN "editor.action.showReferences" ELSE "",
     arguments |-> <<codeLens.document, codeLens.range.start, locations>>]

\* Mutation: the locations are added to those of the lens's previous command.
ResolvedCommandAccumulating(codeLens, locations) ==
    LET old == IF /\ codeLens.command # Undefined
                  /\ "arguments" \in DOMAIN codeLens.command[1]
               THEN codeLens.command[1].arguments[3]
               ELSE <<>>
        all == old \o locations
    IN  [title |-> IF Len(all) = 1
                   THEN oneImplementationLabel
                   ELSE manyImplementationLabel(Len(all)),
         command |-> IF Len(all) # 0 THEN "editor.action.showReferences" ELSE "",
         arguments |-> <<codeLens.document, codeLens.range.start, all>>]

\* lines 60-66
ResolvedCommand(codeLens, locations) ==
    [title |-> IF Len(locations) = 1
               THEN oneImplementationLabel
               ELSE manyImplementationLabel(Len(locations)),
     command |-> IF Len(locations) # 0 THEN "editor.action.showReferences" ELSE "",
     arguments |-> <<codeLens.document, codeLens.range.start, locations>>]

\* lines 69-72
ErrorCommand(codeLens) ==
    [title |-> implementationsErrorLabel, command |-> ""]

\* lines 40-67: the fulfilment callback.  threw = TRUE when it throws.
OnFulfilled(codeLens, response) ==
    IF MissingBody(response)
    THEN [threw |-> TRUE, lens |-> codeLens]
    ELSE [threw |-> FALSE,
          lens |-> [codeLens EXCEPT !.command =
                      Some(ResolvedCommand(codeLens,
                                           Locations(codeLens, response[1].body[1])))]]

\* Mutation: the rejection callback throws again.
OnRejectedRethrows(codeLens) ==
    [threw |-> TRUE, lens |-> codeLens]

\* lines 68-74: the rejection callback.
OnRejected(codeLens) ==
    [threw |-> FALSE,
     lens |-> [codeLens EXCEPT !.command = Some(ErrorCommand(codeLens))]]

\* client.execute('implementation', args, token): how the request settles.  It
\* rejects when the token was cancelled or the service or the transport fails,
\* and otherwise fulfils with the service's answer.
Execute(answer, fails, isCancelled) ==
    IF isCancelled \/ fails
    THEN [rejected |-> TRUE, response |-> Undefined]
    ELSE [rejected |-> FALSE, response |-> answer]

\* lines 40-74: execute(...).then(onFulfilled).catch(onRejected)
Chain(codeLens, settled) ==
    IF settled.rejected THEN OnRejected(codeLens)
    ELSE LET r == OnFulfilled(codeLens, settled.response)
         IN  IF r.threw THEN OnRejected(r.lens) ELSE r

\* Mutation: the lens is kept in a field of the provider shared by all calls.
SharedLens(i) == CHOOSE j \in DOMAIN lenses : \A k \in DOMAIN lenses : j <= k

\* line 38: each call works on the lens it was given.
CapturedLens(i) == i

Ids == DOMAIN lenses

IdleCall == [pc |-> "idle", promise |-> "none", request |-> Undefined,
             cancelRequested |-> FALSE, n |-> 0]

\* The driver calls resolveCodeLens(lens i, token): lines 38-40 up to the
\* request being handed to the language service.
Resolve(i) ==
    /\ calls[i].pc # "pending"
    /\ calls[i].n < MaxCalls
    /\ LET codeLens == lenses[CapturedLens(i)]
           args == toFileLocationRequestArgs(codeLens.file, codeLens.range.start)
           request == [command |-> "implementation", arguments |-> args, token |-> i]
       IN  /\ calls' = [calls EXCEPT ![i] =
                          [pc |-> "pending", promise |-> "pending",
                           request |-> Some(request),
                           cancelRequested |-> FALSE, n |-> calls[i].n + 1]]
           /\ queries' = [queries EXCEPT ![i] = Append(@, request)]
    /\ tokens' = [tokens EXCEPT ![i] = FALSE]
    /\ UNCHANGED <<lenses, service, results,
                   reference, location, navItem, navParent, symbolRange>>

\* The driver cancels the token of the call in flight for lens i.
Cancel(i) ==
    /\ calls[i].pc = "pending"
    /\ ~tokens[i]
    /\ tokens' = [tokens EXCEPT ![i] = TRUE]
    /\ calls' = [calls EXCEPT ![i].cancelRequested = TRUE]
    /\ UNCHANGED <<lenses, service, queries, results,
                   reference, location, navItem, navParent, symbolRange>>

\* Mutation: a failed request is sent again instead of settling the call.
CompleteWithRetry(i, fails) ==
    /\ calls[i].pc = "pending"
    /\ LET t == CapturedLens(i)
           settled == Execute(service[i], fails, tokens[calls[i].request[1].token])
           r == Chain(lenses[t], settled)
           failed == settled.rejected \/ MissingBody(settled.response)
       IN  IF failed /\ Len(queries[i]) <= MaxCalls
           THEN /\ queries' = [queries EXCEPT ![i] = Append(@, calls[i].request[1])]
                /\ UNCHANGED <<lenses, calls, results>>
           ELSE /\ lenses' = [lenses EXCEPT ![t] = r.lens]
                /\ calls' = [calls EXCEPT ![i].pc = "settled",
                                          ![i].promise = "fulfilled"]
                /\ results' = [results EXCEPT ![i] =
                                 Append(@, [cancelRequested |-> calls[i].cancelRequested,
                                            failed |-> fails,
                                            overlapped |-> FALSE,
                                            command |-> lenses'[i].command])]
                /\ UNCHANGED queries
    /\ UNCHANGED <<tokens, service,
                   reference, location, navItem, navParent, symbolRange>>

\* The request of lens i settles (fails: the service or the transport failed)
\* and the callbacks of lines 40-74 run.
Complete(i, fails) ==
    /\ calls[i].pc = "pending"
    /\ LET t == CapturedLens(i)
           settled == Execute(service[i], fails, tokens[calls[i].request[1].token])
           r == Chain(lenses[t], settled)
       IN  /\ lenses' = [lenses EXCEPT ![t] = r.lens]
           /\ calls' = [calls EXCEPT ![i].pc = "settled",
                                     ![i].promise = IF r.threw THEN "rejected"
                                                    ELSE "fulfilled"]
           /\ results' = [results EXCEPT ![i] =
                            Append(@, [cancelRequested |-> calls[i].cancelRequested,
                                       failed |-> fails,
                                       overlapped |-> \E j \in Ids \ {i} :
                                                         calls[j].pc = "pending" /\ tokens[j],
                                       command |-> lenses'[i].command])]
    /\ UNCHANGED <<tokens, service, queries,
                   reference, location, navItem, navParent, symbolRange>>

\* SpecSpan: lines 46-53 applied to one entry of a response body.
ConvertSpan ==
    /\ location = Undefined
    /\ location' = Some(ReferenceLocation(reference))
    /\ UNCHANGED <<lenses, calls, tokens, service, queries, results,
                   reference, navItem, navParent, symbolRange>>

----------------------------------------------------------------------------
(* extractSymbol *)

\* PConst.Kind
Kind == [alias |-> "alias", class |-> "class", const |-> "const",
         enum |-> "enum", function |-> "function", interface |-> "interface",
         memberFunction |-> "memberFunction",
         memberGetAccessor |-> "memberGetAccessor",
         memberSetAccessor |-> "memberSetAccessor",
         memberVariable |-> "memberVariable",
         module |-> "module", type |-> "type", variable |-> "variable"]

Kinds == {Kind[k] : k \in DOMAIN Kind}

\* A string is the sequence of its characters.
WordChars ==
    {"a", "b", "c", "d", "e", "f", "g", "h", "i", "j", "k", "l", "m",
     "n", "o", "p", "q", "r", "s", "t", "u", "v", "w", "x", "y", "z",
     "A", "B", "C", "D", "E", "F", "G", "H", "I", "J", "K", "L", "M",
     "N", "O", "P", "Q", "R", "S", "T", "U", "V", "W", "X", "Y", "Z",
     "0", "1", "2", "3", "4", "5", "6", "7", "8", "9", "_"}

abstractChars == <<"a", "b", "s", "t", "r", "a", "c", "t">>

\* \b between the characters k-1 and k of s (k = 1 and k = Len(s)+1 are the
\* ends of the string): exactly one side is a word character.
WordBoundary(s, k) ==
    LET wordAt(j) == j \in 1..Len(s) /\ s[j] \in WordChars
    IN  wordAt(k - 1) # wordAt(k)

\* Mutation: the pattern has no word boundaries.
MatchAbstractAnywhere(s) ==
    {p \in 1..(Len(s) - 7) : SubSeq(s, p, p + 7) = abstractChars}

\* line 91: kindModifiers.match(/\babstract\b/g), the start indices of the
\* matches; the result is truthy iff there is one.
MatchAbstract(s) ==
    {p \in 1..(Len(s) - 7) :
        /\ SubSeq(s, p, p + 7) = abstractChars
        /\ WordBoundary(s, p)
        /\ WordBoundary(s, p + 8)}

\* super.getSymbolRange(document, item): the range of the item's name.
getSymbolRange(document, item) == Some(fromTextSpan(item.nameSpan))

\* lines 77-97; null is Undefined.
extractSymbol(document, item, parent) ==
    IF item.kind = Kind.interface
    THEN getSymbolRange(document, item)
    ELSE IF /\ item.kind \in {Kind.class, Kind.memberFunction, Kind.memberVariable,
                              Kind.memberGetAccessor, Kind.memberSetAccessor}
            /\ MatchAbstract(item.kindModifiers) # {}
    THEN getSymbolRange(document, item)
    ELSE Undefined

\* SpecSymbol: the tree walk offers one item to extractSymbol.
VisitSymbol ==
    /\ ~symbolRange.visited
    /\ symbolRange' = [visited |-> TRUE,
                       range |-> extractSymbol("file:///a.ts", navItem, navParent)]
    /\ UNCHANGED <<lenses, calls, tokens, service, queries, results,
                   reference, location, navItem, navParent>>

----------------------------------------------------------------------------
(* Initial states *)

AnchorStarts == [line : 0..(MaxLine - 1), character : 0..(MaxCol - 1)]

\* A ReferencesCodeLens as the base provider creates it: unresolved, its
\* document the URI of its file.
NewLens(file, start) ==
    [document |-> asUrl(file), file |-> file,
     range |-> Range(start.line, start.character, start.line, start.character + 1),
     command |-> Undefined]

SeqsUpTo(S, n) == UNION {[1..k -> S] : k \in 0..n}

\* What the service can answer: no response, a response without a body, a
\* response with a body of up to MaxHits entries.
Answers(hits) ==
    {Undefined, Some([body |-> Undefined])}
    \cup {Some([body |-> Some(b)]) : b \in SeqsUpTo(hits, MaxHits)}

\* The declarations the service can report: each starts at one of the
\* positions and either ends on its line, one column on, or runs on to the
\* start of the next line.
Declarations(files, lines, offsets) ==
    {[file |-> f, start |-> [line |-> l, offset |-> o],
      end |-> IF multiLine THEN [line |-> l + 1, offset |-> 1]
                           ELSE [line |-> l, offset |-> o + 1]] :
        f \in files, l \in lines, o \in offsets, multiLine \in BOOLEAN}

\* The text span of a lens's own range, as the service reports it.
OwnSpan(lens) ==
    [file |-> lens.file,
     start |-> [line |-> lens.range.start.line + 1,
                offset |-> lens.range.start.character + 1],
     end |-> [line |-> lens.range.end.line + 1,
              offset |-> lens.range.end.character + 1]]

NoSpan == [file |-> "", start |-> [line |-> 1, offset |-> 1],
           end |-> [line |-> 1, offset |-> 1]]
NoItem == [kind |-> "", kindModifiers |-> <<>>, nameSpan |-> NoSpan]

NoLenses ==
    /\ lenses = <<>>
    /\ calls = <<>>
    /\ tokens = <<>>
    /\ service = <<>>
    /\ queries = <<>>
    /\ results = <<>>

NoSpanInput ==
    /\ reference = NoSpan
    /\ location = Undefined

NoSymbolInput ==
    /\ navItem = NoItem
    /\ navParent = Undefined
    /\ symbolRange = [visited |-> FALSE, range |-> Undefined]

\* One lens of /a.ts, not yet resolved; the service knows the single-line
\* declarations of the lens's line.
Init ==
    /\ \E s \in AnchorStarts : lenses = [i \in {1} |-> NewLens("/a.ts", s)]
    /\ calls = [i \in {1} |-> IdleCall]
    /\ tokens = [i \in {1} |-> FALSE]
    /\ service \in [{1} -> Answers({d \in Declarations({"/a.ts"},
                                                        {lenses[1].range.start.line + 1},
                                                        1..MaxCol) :
                                        d.start.line = d.end.line})]
    /\ queries = [i \in {1} |-> <<>>]
    /\ results = [i \in {1} |-> <<>>]
    /\ NoSpanInput
    /\ NoSymbolInput

\* One lens of /a.ts, not yet resolved; the service knows declarations of
\* both files.
InitBody ==
    /\ \E s \in AnchorStarts : lenses = [i \in {1} |-> NewLens("/a.ts", s)]
    /\ calls = [i \in {1} |-> IdleCall]
    /\ tokens = [i \in {1} |-> FALSE]
    /\ service \in [{1} -> Answers(Declarations(Files, 1..MaxLine, 1..MaxCol))]
    /\ queries = [i \in {1} |-> <<>>]
    /\ results = [i \in {1} |-> <<>>]
    /\ NoSpanInput
    /\ NoSymbolInput

\* Two distinct lenses; the service answers each with no response, an empty
\* body, or the two lenses' own declarations.
InitPair ==
    /\ \E f \in Files, s \in AnchorStarts :
          /\ <<f, s>> # <<"/a.ts", Position(0, 0)>>
          /\ lenses = <<NewLens("/a.ts", Position(0, 0)), NewLens(f, s)>>
    /\ calls = [i \in {1, 2} |-> IdleCall]
    /\ tokens = [i \in {1, 2} |-> FALSE]
    /\ service \in [{1, 2} -> {Undefined,
                               Some([body |-> Some(<<>>)]),
                               Some([body |-> Some(<<OwnSpan(lenses[1]),
                                                     OwnSpan(lenses[2])>>)])}]
    /\ queries = [i \in {1, 2} |-> <<>>]
    /\ results = [i \in {1, 2} |-> <<>>]
    /\ NoSpanInput
    /\ NoSymbolInput

InitSpan ==
    /\ NoLenses
    /\ reference \in FileSpans(SpanMaxLine, SpanMaxCol)
    /\ location = Undefined
    /\ NoSymbolInput

\* The pieces a kindModifiers string is made of.
ModifierParts ==
    {abstractChars,
     <<"A", "b", "s", "t", "r", "a", "c", "t">>,
     <<"f", "o", "o">>,
     <<",">>,
     <<"_">>}

RECURSIVE Concat(_)
Concat(parts) == IF parts = <<>> THEN <<>> ELSE Head(parts) \o Concat(Tail(parts))

ModifierStrings == {Concat(ps) : ps \in SeqsUpTo(ModifierParts, MaxParts)}

NameSpans ==
    {[file |-> "/a.ts", start |-> [line |-> 1, offset |-> 1],
      end |-> [line |-> 1, offset |-> 2]],
     [file |-> "/a.ts", start |-> [line |-> 2, offset |-> 3],
      end |-> [line |-> 2, offset |-> 6]]}

InitSymbol ==
    /\ NoLenses
    /\ NoSpanInput
    /\ navItem \in [kind : Kinds, kindModifiers : ModifierStrings, nameSpan : NameSpans]
    /\ navParent \in {Undefined,
                      Some([kind |-> Kind.interface, kindModifiers |-> <<>>,
                            nameSpan |-> NoSpan]),
                      Some([kind |-> Kind.class, kindModifiers |-> abstractChars,
                            nameSpan |-> NoSpan])}
    /\ symbolRange = [visited |-> FALSE, range |-> Undefined]

----------------------------------------------------------------------------
(* Specifications *)

Next ==
    \/ \E i \in Ids : Resolve(i)
    \/ \E i \in Ids : Cancel(i)
    \/ \E i \in Ids, fails \in BOOLEAN : Complete(i, fails)

NextPair ==
    \/ \E i \in Ids : Resolve(i)
    \/ \E i \in Ids : Cancel(i)
    \/ \E i \in Ids : Complete(i, FALSE)

NextBody ==
    \/ \E i \in Ids : Resolve(i)
    \/ \E i \in Ids : Complete(i, FALSE)

NextSpan == ConvertSpan

NextSymbol == VisitSymbol

Spec == Init /\ [][Next]_vars
SpecBody == InitBody /\ [][NextBody]_vars
SpecPair == InitPair /\ [][NextPair]_vars
SpecSpan == InitSpan /\ [][NextSpan]_vars
SpecSymbol == InitSymbol /\ [][NextSymbol]_vars

----------------------------------------------------------------------------
(* Properties *)

\* The finished calls, as pairs <<lens id, index into results>>.
Finished == {<<i, k>> \in Ids \X (1..MaxCalls) : k <= Len(results[i])}

HasBody(i) == service[i] # Undefined /\ service[i][1].body # Undefined
Body(i) == service[i][1].body[1]

\* The finished calls whose request was answered with a body.
Succeeded ==
    {c \in Finished :
        /\ ~results[c[1]][c[2]].cancelRequested
        /\ ~results[c[1]][c[2]].failed
        /\ HasBody(c[1])}

CommandOf(c) == results[c[1]][c[2]].command[1]
TargetsOf(c) == CommandOf(c).arguments[3]

\* The entry of a response body is the lens's own declaration.
IsOwnHit(lens, hit) ==
    /\ asUrl(hit.file) = lens.document
    /\ hit.start.line - 1 = lens.range.start.line
    /\ hit.start.offset - 1 = lens.range.start.character

KeptHits(i) == {n \in DOMAIN Body(i) : ~IsOwnHit(lenses[i], Body(i)[n])}

\* C1: resolveCodeLens never rejects; a call whose request was cancelled,
\* failed with an error, got no response or got a response without a body
\* ends with the title "Could not determine implementations" and the empty
\* command, the same for every cause.
C1_FailuresGiveErrorLens ==
    /\ \A i \in Ids : calls[i].promise # "rejected"
    /\ \A c \in Finished :
          LET r == results[c[1]][c[2]]
          IN  (r.cancelRequested \/ r.failed \/ ~HasBody(c[1]))
              => r.command = Some([title |-> "Could not determine implementations",
                                   command |-> ""])

C1_Witness ==
    /\ Len(results[1]) = 2
    /\ results[1][1].cancelRequested
    /\ ~results[1][2].cancelRequested /\ ~results[1][2].failed
    /\ ~HasBody(1)
    /\ results[1][1].command = results[1][2].command
    /\ results[1][2].command[1].title = "Could not determine implementations"
    /\ calls[1].promise = "fulfilled"

\* C2 as stated: a response whose body holds zero hits is a failure and gets
\* "Could not determine implementations".
C2_EmptyBodyIsFailure ==
    \A c \in Succeeded :
        Body(c[1]) = <<>>
        => CommandOf(c).title = "Could not determine implementations"

\* C2 amended: no response or a response without a body is a failure; a body
\* that is present and holds zero hits gives "0 implementations" with the
\* empty command; "0 implementations" appears exactly when a body is present
\* and every hit in it (possibly none) is the lens's own declaration.
C2_AbsentBodyIsFailure ==
    \A c \in Finished :
        LET r == results[c[1]][c[2]]
            answered == ~r.cancelRequested /\ ~r.failed
        IN  /\ (answered /\ ~HasBody(c[1]))
                  => r.command[1].title = "Could not determine implementations"
            /\ (answered /\ HasBody(c[1]) /\ Body(c[1]) = <<>>)
                  => /\ r.command[1].title = "0 implementations"
                     /\ r.command[1].command = ""
            /\ r.command[1].title = "0 implementations"
                  <=> (answered /\ HasBody(c[1]) /\ KeptHits(c[1]) = {})

C2_Witness ==
    \E c \in Succeeded :
        /\ Body(c[1]) = <<>>
        /\ CommandOf(c).title = "0 implementations"

\* C3: a hit is missing from the jump targets iff its URI is the lens's
\* document and its computed start is the lens's anchor start; every other
\* hit is kept.
C3_OnlyOwnHitRemoved ==
    \A c \in Succeeded :
        \A n \in DOMAIN Body(c[1]) :
            LET hit == Body(c[1])[n]
                start == Position(hit.start.line - 1, hit.start.offset - 1)
                shown == \E m \in DOMAIN TargetsOf(c) :
                            /\ TargetsOf(c)[m].uri = asUrl(hit.file)
                            /\ TargetsOf(c)[m].range.start = start
            IN  ~shown <=> (/\ asUrl(hit.file) = lenses[c[1]].document
                            /\ start = lenses[c[1]].range.start)

C3_Witness ==
    \E c \in Succeeded :
        /\ Len(Body(c[1])) = 2
        /\ IsOwnHit(lenses[c[1]], Body(c[1])[1])
        /\ Body(c[1])[2].file = lenses[c[1]].file
        /\ Body(c[1])[2].start.line = Body(c[1])[1].start.line
        /\ Body(c[1])[2].start.offset # Body(c[1])[1].start.offset
        /\ Len(TargetsOf(c)) = 1
        /\ TargetsOf(c)[1].uri = lenses[c[1]].document

\* C4 as stated: no two entries of the jump targets are equal.
C4_TargetsDistinct ==
    \A c \in Succeeded :
        \A m, n \in DOMAIN TargetsOf(c) :
            m # n => TargetsOf(c)[m] # TargetsOf(c)[n]

\* C4 amended: the jump targets are not deduplicated: they hold one entry for
\* every hit that is not the lens's own declaration, in the order of the
\* response, so a location reported twice appears twice and the label counts
\* it twice.
C4_TargetsKeepEveryHit ==
    \A c \in Succeeded :
        LET kept == KeptHits(c[1])
            N == Cardinality(kept)
        IN  /\ Len(TargetsOf(c)) = N
            /\ \E f \in [1..N -> kept] :
                  /\ \A m, n \in 1..N : m < n => f[m] < f[n]
                  /\ \A m \in 1..N :
                        LET hit == Body(c[1])[f[m]]
                        IN  /\ TargetsOf(c)[m].uri = asUrl(hit.file)
                            /\ TargetsOf(c)[m].range.start =
                                  Position(hit.start.line - 1, hit.start.offset - 1)
            /\ CommandOf(c).title =
                  (IF N = 1 THEN "1 implementation"
                   ELSE ToString(N) \o " implementations")

C4_Witness ==
    \E c \in Succeeded :
        /\ Len(TargetsOf(c)) = 2
        /\ TargetsOf(c)[1] = TargetsOf(c)[2]
        /\ CommandOf(c).title = "2 implementations"

\* C5: with N jump targets left, the title is "1 implementation" for N = 1 and
\* "{N} implementations" otherwise; the command is editor.action.showReferences
\* with (document, anchor start, the N targets) for N >= 1 and empty for N = 0.
C5_ResultDeterminedByCount ==
    \A c \in Succeeded :
        LET N == Cardinality(KeptHits(c[1]))
            cmd == CommandOf(c)
        IN  /\ N = 0 => cmd.title = "0 implementations"
            /\ N = 1 => cmd.title = "1 implementation"
            /\ N = 2 => cmd.title = "2 implementations"
            /\ N > 2 => cmd.title = ToString(N) \o " implementations"
            /\ N = 0 => cmd.command = ""
            /\ N >= 1 => /\ cmd.command = "editor.action.showReferences"
                         /\ cmd.arguments[1] = lenses[c[1]].document
                         /\ cmd.arguments[2] = lenses[c[1]].range.start
                         /\ Len(cmd.arguments[3]) = N

C5_Witness ==
    \E c \in Succeeded :
        /\ Len(Body(c[1])) = 2
        /\ Cardinality(KeptHits(c[1])) = 1
        /\ CommandOf(c).title = "1 implementation"
        /\ CommandOf(c).command = "editor.action.showReferences"

\* C6: the display range of a hit starts at (sl-1, sc-1); it ends at
\* (el-1, ec-1) when sl = el and at (sl, 0) otherwise.
C6_FirstLineOnly ==
    location # Undefined =>
        LET sl == reference.start.line
            sc == reference.start.offset
            el == reference.end.line
            ec == reference.end.offset
            range == location[1].range
        IN  /\ range.start = [line |-> sl - 1, character |-> sc - 1]
            /\ sl = el => range.end = [line |-> el - 1, character |-> ec - 1]
            /\ sl # el => range.end = [line |-> sl, character |-> 0]

C6_Witness ==
    /\ reference.start = [line |-> 5, offset |-> 3]
    /\ reference.end = [line |-> 8, offset |-> 1]
    /\ location # Undefined
    /\ location[1].range = [start |-> [line |-> 4, character |-> 2],
                            end |-> [line |-> 5, character |-> 0]]

\* C7: extractSymbol returns the name range iff the kind is interface, or the
\* kind is class / memberFunction / memberVariable / memberGetAccessor /
\* memberSetAccessor and some maximal run of word characters of
\* kindModifiers is exactly "abstract"; otherwise it returns null.
\* The parent plays no part.
C7_EligibleKinds ==
    symbolRange.visited =>
        LET RECURSIVE Words(_, _)
            Words(s, cur) ==
                IF s = <<>> THEN {cur}
                ELSE IF Head(s) \in WordChars
                     THEN Words(Tail(s), Append(cur, Head(s)))
                     ELSE {cur} \cup Words(Tail(s), <<>>)
            abstract == abstractChars \in Words(navItem.kindModifiers, <<>>)
            eligible ==
                \/ navItem.kind = "interface"
                \/ /\ navItem.kind \in {"class", "memberFunction", "memberVariable",
                                    "memberGetAccessor", "memberSetAccessor"}
                   /\ abstract
            span == navItem.nameSpan
        IN  symbolRange.range =
                IF eligible
                THEN <<[start |-> [line |-> span.start.line - 1,
                                   character |-> span.start.offset - 1],
                        end |-> [line |-> span.end.line - 1,
                                 character |-> span.end.offset - 1]]>>
                ELSE <<>>

C7_Witness ==
    /\ symbolRange.visited
    /\ navItem.kind = "memberFunction"
    /\ navItem.kindModifiers = <<"f", "o", "o", ",">> \o abstractChars
    /\ navParent # Undefined
    /\ symbolRange.range # Undefined

\* C8: a lens whose own resolution was not cancelled ends with the result it
\* would have had if resolved alone, whatever happens to the other lens; a
\* cancelled resolution changes only its own lens.
C8_CancelIsPerLens ==
    \A c \in Finished :
        LET i == c[1]
            r == results[i][c[2]]
            fresh == NewLens(lenses[i].file, lenses[i].range.start)
            alone == Chain(fresh, Execute(service[i], r.failed, r.cancelRequested))
        IN  r.command = alone.lens.command

C8_Witness ==
    \E c \in Succeeded :
        /\ results[c[1]][c[2]].overlapped
        /\ Len(TargetsOf(c)) = 1
        /\ CommandOf(c).title = "1 implementation"

\* C9: two resolutions of the same lens under the same service answer give the
\* same title, command and targets, and issue the same query.
C9_Idempotent ==
    \A i \in Ids :
        /\ \A j, k \in DOMAIN results[i] :
              (/\ results[i][j].cancelRequested = results[i][k].cancelRequested
               /\ results[i][j].failed = results[i][k].failed)
              => results[i][j].command = results[i][k].command
        /\ \A j, k \in DOMAIN queries[i] :
              queries[i][j].arguments = queries[i][k].arguments

C9_Witness ==
    /\ Len(results[1]) = 2
    /\ <<1, 1>> \in Succeeded
    /\ <<1, 2>> \in Succeeded
    /\ Len(Body(1)) = 2
    /\ Len(TargetsOf(<<1, 1>>)) = 1
    /\ results[1][1] = results[1][2]

\* C10: each call sends exactly one 'implementation' request, at the lens's
\* anchor start and with the call's token; a lens goes idle -> pending ->
\* settled, a settled lens is left only by a new call, and only a new call
\* sends a request.
C10_OneQueryPerCall ==
    /\ [](\A i \in Ids :
            /\ Len(queries[i]) = calls[i].n
            /\ Len(results[i]) = calls[i].n - (IF calls[i].pc = "pending" THEN 1 ELSE 0)
            /\ (calls[i].pc = "idle") <=> (calls[i].n = 0)
            /\ (calls[i].pc = "settled") => lenses[i].command # Undefined
            /\ \A k \in DOMAIN queries[i] :
                  /\ queries[i][k].command = "implementation"
                  /\ queries[i][k].arguments =
                        [file |-> lenses[i].file,
                         line |-> lenses[i].range.start.line + 1,
                         offset |-> lenses[i].range.start.character + 1]
                  /\ queries[i][k].token = i)
    /\ [][\A i \in Ids :
            /\ (calls[i].pc = "idle") => calls'[i].pc \in {"idle", "pending"}
            /\ (calls[i].pc = "pending") => calls'[i].pc \in {"pending", "settled"}
            /\ (calls[i].pc = "settled" /\ calls'[i].pc # "settled")
                  => (calls'[i].pc = "pending" /\ calls'[i].n = calls[i].n + 1)
            /\ (calls[i].pc = "settled" /\ calls'[i].pc = "settled")
                  => (lenses'[i] = lenses[i] /\ results'[i] = results[i])
            /\ (queries'[i] # queries[i])
                  => (/\ calls'[i].n = calls[i].n + 1
                      /\ Len(queries'[i]) = Len(queries[i]) + 1
                      /\ calls[i].pc # "pending")]_vars

C10_Witness ==
    /\ calls[1].n = 2
    /\ calls[1].pc = "settled"
    /\ Len(queries[1]) = 2
    /\ results[1][1].command[1].title = "Could not determine implementations"
    /\ results[1][2].command[1].title = "1 implementation"

====
